---- MODULE Spec2Model ----
(***************************************************************************)
(* Retrieval orchestration layer of the semantic-search-over-articles      *)
(* guide: the ingestion loop of ZeroEntropyArticleIndexer.index_articles   *)
(* (backend/indexer_ze.py) and the retrieve-and-rerank pipeline of         *)
(* ZeroEntropyUtils.search_and_rerank (backend/utils_ze.py), together with *)
(* the part of the remote index service they talk to; the query router     *)
(* with its filter builder (search_articles in backend/__main__.py and     *)
(* get_search_results in frontend/streamlit_app_ze.py) over the search     *)
(* functions of backend/search_ze.py; and the metadata record that         *)
(* index_articles builds for an article.                                   *)
(*                                                                         *)
(* Strings that the code slices or formats (titles, document paths) are    *)
(* sequences of one-character strings; the other article fields are        *)
(* opaque strings.                                                         *)
(***************************************************************************)
EXTENDS Integers, Sequences, FiniteSets, TLC

VARIABLES
    hashsalt,        \* the str hash salt this process drew at start (PYTHONHASHSEED)
    documents,       \* the collection in the index service: path -> stored document
    ncalls,          \* number of index_articles calls started so far
    ipc,             \* position of index_articles: "idle", "loop", "done", "raised"
    articles,        \* the batch passed to index_articles (a list of article names)
    idx,             \* enumerate() position, 0-based: articles before idx are finished
    indexed_count,   \* local of index_articles
    failed_count,    \* local of index_articles
    writeLog,        \* history of this call: one [path, outcome] per documents.add call
    keyLog,          \* the last two document keys computed: [idx, article, key]
    mpc,             \* position of search_and_rerank: "idle", "hydrate", "rerank", "done", "raised"
    k,               \* argument of search_and_rerank: size of the broad stage
    rerank_top_n,    \* argument of search_and_rerank
    search_results,  \* search_results.results: the broad-stage candidates
    doc_infos,       \* what get_document_info returned for the candidates fetched so far
    document_texts,  \* local of search_and_rerank
    rerank_results,  \* local of search_and_rerank: the reranker's {index, relevance_score} pairs
    final_results,   \* local of search_and_rerank, returned when mpc = "done"
    calls,           \* history of this call: the service calls made, [op, n, ndocs, ok]
    rpc,             \* position of the query router: "idle", "done", "raised"
    request,         \* arguments the router was called with, and which of the two routers
    filter_dict,     \* local of the router: the filter built from the request
    rcalls,          \* history of this call: calls made by the router, [op, query, k, filter, top_n, ok]
    response,        \* response.results of the retrieval call of search_documents/_snippets/_pages
    ncandidates,     \* number of candidates the broad stage gave search_and_rerank
    route_results,   \* local "results" of the router, returned when rpc = "done"
    error,           \* the exception the router ended with when rpc = "raised"
    status_response, \* the counters the service answered the last standalone status call with
    status_returned, \* what get_collection_status returned to its caller for them
    meta_article,    \* the article (by its field lengths) index_articles last built metadata for
    article_metadata,\* local "metadata" of index_articles: the metadata record of that article
    spc,             \* position of scrape_and_index: "idle", "fetch", "done", "raised"
    collections,     \* the collections of the index service, by name, in creation order
    feed_idx,        \* number of feed urls the loop of scrape_and_index has finished
    scraped,         \* local "articles" of scrape_and_index: the articles gathered so far
    slog,            \* history of this run: the calls scrape_and_index made, [op, arg, outcome]
    dpc,             \* position of batch_delete_documents: "idle", "loop", "done", "raised"
    delete_paths,    \* argument "paths" of batch_delete_documents
    delete_idx,      \* number of paths the loop of batch_delete_documents has finished
    delete_results,  \* local "results" of batch_delete_documents: path -> success
    dlog             \* history of this call: one [path, outcome] per documents.delete call

ingestVars == <<hashsalt, documents, ncalls, ipc, articles, idx,
                indexed_count, failed_count, writeLog>>

keyVars == <<keyLog>>

mergeVars == <<mpc, k, rerank_top_n, search_results, doc_infos, document_texts,
               rerank_results, final_results, calls>>

routeVars == <<rpc, request, filter_dict, rcalls, response, ncandidates,
               route_results, error, status_response, status_returned>>

metaVars == <<meta_article, article_metadata>>

scrapeVars == <<spc, collections, feed_idx, scraped, slog>>

deleteVars == <<dpc, delete_paths, delete_idx, delete_results, dlog>>

vars == <<ingestVars, keyVars, mergeVars, routeVars, metaVars, scrapeVars, deleteVars>>

----------------------------------------------------------------------------
(* Bounds of the model *)

\* longest batch passed to index_articles
MaxBatch == 2
\* number of index_articles calls explored
MaxCalls == 2
\* largest ordinal the key function is compared at
MaxOrdinal == 12
\* largest k passed to search_and_rerank
MaxK == 3
\* largest rerank_top_n passed to search_and_rerank
MaxTopN == 3
\* largest k passed to the query router
MaxRouteK == 2
\* by how many characters the longest str fields exceed the cap on their field
Overrun == 1

(* Program constants *)

\* article['title'][:50]
TitlePrefixLen == 50

----------------------------------------------------------------------------
(* Python string helpers *)

Min(a, b) == IF a <= b THEN a ELSE b

\* s[:n] for n >= 0
Slice(s, n) == SubSeq(s, 1, Min(Len(s), n))

Digit == <<"0", "1", "2", "3", "4", "5", "6", "7", "8", "9">>

RECURSIVE NatStr(_)
\* str(n) for n >= 0
NatStr(n) == IF n < 10 THEN <<Digit[n + 1]>>
             ELSE NatStr(n \div 10) \o <<Digit[(n % 10) + 1]>>

\* str(n), as an f-string formats an int
IntStr(n) == IF n < 0 THEN <<"-">> \o NatStr(0 - n) ELSE NatStr(n)

----------------------------------------------------------------------------
(* Inputs *)

T50 == [i \in 1..TitlePrefixLen |-> "a"]

\* The article dicts, by name.  A1 and A2 share their first 50 title characters
\* and differ in every other field; A3 has another, short title.
ArticleDict ==
    [a \in {"A1", "A2", "A3"} |->
        CASE a = "A1" -> [title |-> T50, creator |-> "c1", description |-> "d1",
                          content |-> "x1", source_url |-> "u1"]
          [] a = "A2" -> [title |-> T50 \o <<"b">>, creator |-> "c2", description |-> "d2",
                          content |-> "x2", source_url |-> "u2"]
          [] a = "A3" -> [title |-> <<"b">>, creator |-> "c1", description |-> "d3",
                          content |-> "x3", source_url |-> "u1"]]

Articles == DOMAIN ArticleDict

Batches == UNION {[1..n -> Articles] : n \in 1..MaxBatch}

\* hash() of str is salted per process: over the titles above it can be any
\* function into HashValues.  A salt is the number of one such function: its
\* two binary digits choose the hash of each title prefix, a negative one-digit
\* value or a positive two-digit one.
HashSalts == 0..3

SaltDigit(s) == IF s = T50 THEN 1 ELSE 2

\* hash(s) in this process
pyhash(s) == IF (hashsalt \div SaltDigit(s)) % 2 = 0 THEN 0 - 7 ELSE 12

----------------------------------------------------------------------------
(* ZeroEntropyArticleIndexer.index_articles *)

\* doc_path as it would be with the ordinal left out of the f-string
doc_path_no_ordinal(i, article) ==
    <<"a", "r", "t", "i", "c", "l", "e", "_">>
        \o IntStr(pyhash(Slice(article.title, TitlePrefixLen)))

\* f"article_{idx}_{hash(article['title'][:50])}"
doc_path(i, article) ==
    <<"a", "r", "t", "i", "c", "l", "e", "_">> \o NatStr(i) \o <<"_">>
        \o IntStr(pyhash(Slice(article.title, TitlePrefixLen)))

\* What zclient.documents.add can do for a path: the service refuses an
\* existing path with ConflictError, and any call can fail otherwise
\* (connection, status or validation error).
AddOutcomes(path) ==
    IF path \in DOMAIN documents THEN {"conflict", "failed"}
    ELSE {"written", "failed"}

\* AfterAdd as it would be without the "except ConflictError" clause
AfterAdd_conflict_raises(outcome, ic, fc) ==
    CASE outcome = "written"  -> [indexed |-> ic + 1, failed |-> fc, raised |-> FALSE]
      [] OTHER                -> [indexed |-> ic, failed |-> fc, raised |-> TRUE]

\* The loop body's handling of the outcome of documents.add: the new
\* indexed_count and failed_count, and whether the exception leaves the loop.
\* Only ConflictError is caught.
AfterAdd(outcome, ic, fc) ==
    CASE outcome = "written"  -> [indexed |-> ic + 1, failed |-> fc, raised |-> FALSE]
      [] outcome = "conflict" -> [indexed |-> ic, failed |-> fc, raised |-> FALSE]
      [] OTHER                -> [indexed |-> ic, failed |-> fc, raised |-> TRUE]

\* A new process: the interpreter draws a new hash salt.  The collection
\* lives in the service and survives.
NewProcess ==
    /\ ipc = "idle"
    /\ 0 < ncalls /\ ncalls < MaxCalls
    /\ \E h \in HashSalts : h # hashsalt /\ hashsalt' = h
    /\ UNCHANGED <<documents, ncalls, ipc, articles, idx,
                   indexed_count, failed_count, writeLog>>
    /\ UNCHANGED <<keyVars, mergeVars, routeVars, metaVars, scrapeVars, deleteVars>>

\* index_articles(batch) is called: the counters are set to 0
index_articles_start(batch) ==
    /\ ipc = "idle"
    /\ ncalls < MaxCalls
    /\ ncalls' = ncalls + 1
    /\ articles' = batch
    /\ idx' = 0
    /\ indexed_count' = 0
    /\ failed_count' = 0
    /\ writeLog' = <<>>
    /\ ipc' = "loop"
    /\ UNCHANGED <<hashsalt, documents>>
    /\ UNCHANGED <<keyVars, mergeVars, routeVars, metaVars, scrapeVars, deleteVars>>

\* one iteration of "for idx, article in enumerate(articles)"
index_articles_write ==
    /\ ipc = "loop"
    /\ idx < Len(articles)
    /\ LET article == ArticleDict[articles[idx + 1]]
           path == doc_path(idx, article)
       IN  \E outcome \in AddOutcomes(path) :
                LET r == AfterAdd(outcome, indexed_count, failed_count)
                IN  /\ documents' =
                           IF outcome = "written"
                           THEN [p \in DOMAIN documents \cup {path} |->
                                    IF p = path THEN [article |-> articles[idx + 1], idx |-> idx]
                                    ELSE documents[p]]
                           ELSE documents
                    /\ writeLog' = Append(writeLog, [path |-> path, outcome |-> outcome])
                    /\ indexed_count' = r.indexed
                    /\ failed_count' = r.failed
                    /\ ipc' = IF r.raised THEN "raised" ELSE "loop"
                    /\ idx' = IF r.raised THEN idx ELSE idx + 1
    /\ UNCHANGED <<hashsalt, ncalls, articles>>
    /\ UNCHANGED <<keyVars, mergeVars, routeVars, metaVars, scrapeVars, deleteVars>>

\* the loop is exhausted: the final logger.info, and the normal return
index_articles_finish ==
    /\ ipc = "loop"
    /\ idx = Len(articles)
    /\ ipc' = "done"
    /\ UNCHANGED <<hashsalt, documents, ncalls, articles, idx,
                   indexed_count, failed_count, writeLog>>
    /\ UNCHANGED <<keyVars, mergeVars, routeVars, metaVars, scrapeVars, deleteVars>>

\* the call is over (returned, or left by the exception)
index_articles_end ==
    /\ ipc \in {"done", "raised"}
    /\ ipc' = "idle"
    /\ articles' = <<>>
    /\ idx' = 0
    /\ indexed_count' = 0
    /\ failed_count' = 0
    /\ writeLog' = <<>>
    /\ UNCHANGED <<hashsalt, documents, ncalls>>
    /\ UNCHANGED <<keyVars, mergeVars, routeVars, metaVars, scrapeVars, deleteVars>>

\* Python values: an optional str is <<>> for None and <<s>> for the str s;
\* a dict is a function on its keys
None == <<>>

EmptyDict == [x \in {} |-> 0]

\* d[key] = value
DictSet(d, key, value) == [x \in DOMAIN d \cup {key} |-> IF x = key THEN value ELSE d[x]]

\* dict.get(key, default), getattr(object, key, default)
DictGet(d, key, default) == IF key \in DOMAIN d THEN d[key] ELSE default

\* a filter argument of the retrieval calls: None, or a dict of clauses
NoFilter == [is_none |-> TRUE, clauses |-> EmptyDict]

\* the router has not been called
NoRequest ==
    [impl |-> "none", query |-> "", search_type |-> "", k |-> 0,
     filter_creator |-> None, filter_category |-> None, reranker |-> "",
     show_status |-> FALSE]

\* the counters of a status response
Counters(total, indexed, parsing, indexing, failed) ==
    [num_documents |-> total, num_indexed_documents |-> indexed,
     num_parsing_documents |-> parsing, num_indexing_documents |-> indexing,
     num_failed_documents |-> failed]

\* no status call has returned
NoStatus == Counters(0, 0, 0, 0, 0)

\* index_articles has built no metadata record
NoArticle == [title |-> 0, creator |-> 0, categories |-> <<>>, pub_date |-> 0, source_url |-> 0]

NoMetadata ==
    [title |-> <<>>, creator |-> <<>>, categories |-> <<>>, pub_date |-> <<>>,
     source_url |-> <<>>, type |-> "none"]

Init ==
    /\ hashsalt \in HashSalts
    /\ documents = <<>>
    /\ ncalls = 0
    /\ ipc = "idle"
    /\ articles = <<>>
    /\ idx = 0
    /\ indexed_count = 0
    /\ failed_count = 0
    /\ writeLog = <<>>
    /\ keyLog = <<>>
    /\ mpc = "idle"
    /\ k = 0
    /\ rerank_top_n = 0
    /\ search_results = <<>>
    /\ doc_infos = <<>>
    /\ document_texts = <<>>
    /\ rerank_results = <<>>
    /\ final_results = <<>>
    /\ calls = <<>>
    /\ rpc = "idle"
    /\ request = NoRequest
    /\ filter_dict = NoFilter
    /\ rcalls = <<>>
    /\ response = <<>>
    /\ ncandidates = 0
    /\ route_results = <<>>
    /\ error = "none"
    /\ status_response = NoStatus
    /\ status_returned = NoStatus
    /\ meta_article = NoArticle
    /\ article_metadata = NoMetadata
    /\ spc = "idle"
    /\ collections = <<>>
    /\ feed_idx = 0
    /\ scraped = <<>>
    /\ slog = <<>>
    /\ dpc = "idle"
    /\ delete_paths = <<>>
    /\ delete_idx = 0
    /\ delete_results = EmptyDict
    /\ dlog = <<>>

Next ==
    \/ NewProcess
    \/ \E batch \in Batches : index_articles_start(batch)
    \/ index_articles_write
    \/ index_articles_finish
    \/ index_articles_end

Spec == Init /\ [][Next]_vars

----------------------------------------------------------------------------
(* The document key by itself: line 145 applied to any ordinal and article, *)
(* in one process or across processes.                                      *)

\* the key of article a at ordinal i is computed; the last two are kept
AssignKey(i, a) ==
    /\ LET new == [idx |-> i, article |-> a, key |-> doc_path(i, ArticleDict[a])]
       IN  keyLog' = IF Len(keyLog) < 2 THEN Append(keyLog, new)
                     ELSE <<keyLog[2], new>>
    /\ UNCHANGED <<ingestVars, mergeVars, routeVars, metaVars, scrapeVars, deleteVars>>

\* a new process, with a new hash salt, between two key computations
NewProcessKey ==
    /\ \E h \in HashSalts : h # hashsalt /\ hashsalt' = h
    /\ UNCHANGED <<documents, ncalls, ipc, articles, idx,
                   indexed_count, failed_count, writeLog>>
    /\ UNCHANGED <<keyVars, mergeVars, routeVars, metaVars, scrapeVars, deleteVars>>

NextKey ==
    \/ \E i \in 0..MaxOrdinal : \E a \in Articles : AssignKey(i, a)
    \/ NewProcessKey

SpecKey == Init /\ [][NextKey]_vars

----------------------------------------------------------------------------
(* ZeroEntropyUtils.search_and_rerank and the service calls it makes *)

\* The documents of the collection the broad stage can return, with the
\* metadata it returns for them; a document written by index_articles has
\* no description in its metadata.
MergeDocs ==
    { [path |-> "p1", metadata |-> [title |-> "t1", description |-> "s1"]],
      [path |-> "p2", metadata |-> [title |-> "t2", description |-> "s2"]],
      [path |-> "p3", metadata |-> [title |-> "t3"]] }

\* scores of the broad stage and of the reranker (service-defined values)
BroadScores == {30, 40}
RerankScores == {7, 9}

\* sequences of length n over S without repetition
Injections(n, S) == {f \in [1..n -> S] : \A x, y \in 1..n : x # y => f[x] # f[y]}

\* What zclient.queries.top_documents(k=kk) can return: at most kk documents
\* of the collection docs, each with its metadata and a score.
TopDocumentsOver(kk, docs) ==
    UNION { { [j \in 1..n |-> [path |-> ds[j].path, score |-> sc[j],
                                metadata |-> ds[j].metadata]] :
                ds \in Injections(n, docs), sc \in [1..n -> BroadScores] } :
            n \in 0..Min(kk, Cardinality(docs)) }

\* the broad stage over the collection search_and_rerank is explored with
TopDocumentsResponses(kk) == TopDocumentsOver(kk, MergeDocs)

\* What zclient.models.rerank(documents, top_n) can return: top_n of the
\* submitted positions (all of them when top_n is larger), 0-based, each
\* with a relevance score.
RerankResponses(ndocs, top_n) ==
    LET n == Min(top_n, ndocs)
    IN  { [j \in 1..n |-> [index |-> ix[j], relevance_score |-> sc[j]]] :
              ix \in Injections(n, 0..(ndocs - 1)), sc \in [1..n -> RerankScores] }

\* NoCandidates as it would be without the early return
NoCandidates_never(results) == FALSE

\* "if not search_results.results: return []"
NoCandidates(results) == results = <<>>

\* the text of a document whose content get_document_info returned
ContentText(path) == <<"content", path>>

\* What get_document_info(path, include_content=True) can return: no
\* document, a document whose content is empty, or one with its content.
DocInfoResponses(path) ==
    { [present |-> FALSE, content |-> <<>>],
      [present |-> TRUE, content |-> <<>>],
      [present |-> TRUE, content |-> ContentText(path)] }

\* f"{metadata.get('title', '')} {metadata.get('description', '')}"
FallbackText(metadata) ==
    <<DictGet(metadata, "title", ""), " ", DictGet(metadata, "description", "")>>

\* AppendText as it would be with a candidate without content left out
AppendText_skips_empty(texts, doc_info, metadata) ==
    IF doc_info.present /\ doc_info.content # <<>>
    THEN Append(texts, doc_info.content)
    ELSE texts

\* "if doc_info and doc_info.get("content"): document_texts.append(...)
\*  else: ... document_texts.append(fallback_text)"
AppendText(texts, doc_info, metadata) ==
    IF doc_info.present /\ doc_info.content # <<>>
    THEN Append(texts, doc_info.content)
    ELSE Append(texts, FallbackText(metadata))

\* AfterFailure as it would be with the error caught and the results so far returned
AfterFailure_swallowed(op) == "done"

\* search_and_rerank has no except clause: an error of a call it awaits
\* leaves it as an exception
AfterFailure(op) == "raised"

\* RerankTopN as it would be with rerank_top_n passed on as it is
RerankTopN_uncapped(top_n, texts) == top_n

\* RerankTopN as it would be with max written for min
RerankTopN_max(top_n, texts) == IF top_n >= Len(texts) THEN top_n ELSE Len(texts)

\* top_n=min(rerank_top_n, len(document_texts))
RerankTopN(top_n, texts) == Min(top_n, Len(texts))

\* MergeItem as it would be with the rerank score stored under both keys
MergeItem_score_lost(results, rerank_result) ==
    LET original_result == results[rerank_result.index + 1]
    IN  [path |-> original_result.path,
         score |-> original_result.score,
         metadata |-> original_result.metadata,
         rerank_score |-> rerank_result.relevance_score,
         original_score |-> rerank_result.relevance_score]

\* {**original_result, "rerank_score": ..., "original_score": ...} with
\* original_result = search_results.results[rerank_result["index"]]
MergeItem(results, rerank_result) ==
    LET original_result == results[rerank_result.index + 1]
    IN  [path |-> original_result.path,
         score |-> original_result.score,
         metadata |-> original_result.metadata,
         rerank_score |-> rerank_result.relevance_score,
         original_score |-> original_result.score]

\* FinalResults as it would be with the items sorted again by the score of
\* the broad stage
FinalResults_resorted(results, reranked) ==
    LET n == Len(reranked)
        rank(j) == Cardinality({i \in 1..n :
                      \/ results[reranked[i].index + 1].score > results[reranked[j].index + 1].score
                      \/ /\ results[reranked[i].index + 1].score = results[reranked[j].index + 1].score
                         /\ i < j}) + 1
    IN  [p \in 1..n |-> MergeItem(results, reranked[CHOOSE j \in 1..n : rank(j) = p])]

\* the loop "for rerank_result in rerank_results"
FinalResults(results, reranked) ==
    [j \in 1..Len(reranked) |-> MergeItem(results, reranked[j])]

Call(op, n, ndocs, ok) == [op |-> op, n |-> n, ndocs |-> ndocs, ok |-> ok]

\* search_and_rerank(query, kk, top_n) is called and awaits top_documents:
\* the call fails, or returns no candidate (return []), or some candidates
search_and_rerank_start(kk, top_n) ==
    /\ mpc = "idle"
    /\ k' = kk
    /\ rerank_top_n' = top_n
    /\ doc_infos' = <<>>
    /\ document_texts' = <<>>
    /\ rerank_results' = <<>>
    /\ final_results' = <<>>
    /\ \/ /\ calls' = <<Call("top_documents", kk, 0, FALSE)>>
          /\ search_results' = <<>>
          /\ mpc' = AfterFailure("top_documents")
       \/ \E results \in TopDocumentsResponses(kk) :
            /\ calls' = <<Call("top_documents", kk, 0, TRUE)>>
            /\ search_results' = results
            /\ mpc' = IF NoCandidates(results) THEN "done" ELSE "hydrate"
    /\ UNCHANGED <<ingestVars, keyVars, routeVars, metaVars, scrapeVars, deleteVars>>

\* one iteration of "for result in search_results.results": get_document_info
\* fails, or returns what the service holds for the candidate
search_and_rerank_hydrate ==
    /\ mpc = "hydrate"
    /\ Len(doc_infos) < Len(search_results)
    /\ LET n == Len(doc_infos) + 1
           result == search_results[n]
       IN  \/ /\ calls' = Append(calls, Call("get_info", n, 0, FALSE))
              /\ mpc' = AfterFailure("get_info")
              /\ UNCHANGED <<doc_infos, document_texts>>
           \/ /\ calls' = Append(calls, Call("get_info", n, 0, TRUE))
              /\ \E doc_info \in DocInfoResponses(result.path) :
                    /\ doc_infos' = Append(doc_infos, doc_info)
                    /\ document_texts' = AppendText(document_texts, doc_info, result.metadata)
              /\ mpc' = "hydrate"
    /\ UNCHANGED <<k, rerank_top_n, search_results, rerank_results, final_results>>
    /\ UNCHANGED <<ingestVars, keyVars, routeVars, metaVars, scrapeVars, deleteVars>>

\* the texts are complete: rerank_documents is awaited; it fails, or its
\* results are merged with the candidates and returned
search_and_rerank_rerank ==
    /\ mpc = "hydrate"
    /\ Len(doc_infos) = Len(search_results)
    /\ LET top_n == RerankTopN(rerank_top_n, document_texts)
           ndocs == Len(document_texts)
       IN  \/ /\ calls' = Append(calls, Call("rerank", top_n, ndocs, FALSE))
              /\ mpc' = AfterFailure("rerank")
              /\ UNCHANGED <<rerank_results, final_results>>
           \/ /\ top_n >= 0
              /\ calls' = Append(calls, Call("rerank", top_n, ndocs, TRUE))
              /\ \E reranked \in RerankResponses(ndocs, top_n) :
                    /\ rerank_results' = reranked
                    /\ final_results' = FinalResults(search_results, reranked)
              /\ mpc' = "done"
    /\ UNCHANGED <<k, rerank_top_n, search_results, doc_infos, document_texts>>
    /\ UNCHANGED <<ingestVars, keyVars, routeVars, metaVars, scrapeVars, deleteVars>>

\* the call is over (returned, or left by an exception)
search_and_rerank_end ==
    /\ mpc \in {"done", "raised"}
    /\ mpc' = "idle"
    /\ k' = 0
    /\ rerank_top_n' = 0
    /\ search_results' = <<>>
    /\ doc_infos' = <<>>
    /\ document_texts' = <<>>
    /\ rerank_results' = <<>>
    /\ final_results' = <<>>
    /\ calls' = <<>>
    /\ UNCHANGED <<ingestVars, keyVars, routeVars, metaVars, scrapeVars, deleteVars>>

NextMerge ==
    \/ \E kk \in 0..MaxK : \E top_n \in 0..MaxTopN : search_and_rerank_start(kk, top_n)
    \/ search_and_rerank_hydrate
    \/ search_and_rerank_rerank
    \/ search_and_rerank_end

SpecMerge == Init /\ [][NextMerge]_vars

----------------------------------------------------------------------------
(* The query router: ZeroEntropyArticleManager.search_articles (backend/__main__.py) *)
(* and get_search_results (frontend/streamlit_app_ze.py), the filter they      *)
(* build and the search functions they call                                    *)

\* "if filter_creator:": None and the empty string are false
Truthy(x) == x # None /\ x[1] # ""

\* BuildFilter as it would be without the line "filter_dict if filter_dict else None"
BuildFilter_empty_dict(filter_creator, filter_category) ==
    LET d1 == IF Truthy(filter_creator)
              THEN DictSet(EmptyDict, "creator", [eq |-> filter_creator[1]])
              ELSE EmptyDict
        d2 == IF Truthy(filter_category)
              THEN DictSet(d1, "categories", [eq |-> filter_category[1]])
              ELSE d1
    IN  [is_none |-> FALSE, clauses |-> d2]

\* BuildFilter as it would be with "is not None" tests
BuildFilter_is_not_none(filter_creator, filter_category) ==
    LET d1 == IF filter_creator # None
              THEN DictSet(EmptyDict, "creator", [eq |-> filter_creator[1]])
              ELSE EmptyDict
        d2 == IF filter_category # None
              THEN DictSet(d1, "categories", [eq |-> filter_category[1]])
              ELSE d1
    IN  IF DOMAIN d2 # {} THEN [is_none |-> FALSE, clauses |-> d2] ELSE NoFilter

\* filter_dict = {}; if filter_creator: filter_dict["creator"] = {"$eq": ...};
\* if filter_category: filter_dict["categories"] = {"$eq": ...};
\* filter_dict = filter_dict if filter_dict else None
BuildFilter(filter_creator, filter_category) ==
    LET d1 == IF Truthy(filter_creator)
              THEN DictSet(EmptyDict, "creator", [eq |-> filter_creator[1]])
              ELSE EmptyDict
        d2 == IF Truthy(filter_category)
              THEN DictSet(d1, "categories", [eq |-> filter_category[1]])
              ELSE d1
    IN  IF DOMAIN d2 # {} THEN [is_none |-> FALSE, clauses |-> d2] ELSE NoFilter

\* values of the optional filter arguments
OptStrings == {None, <<"">>, <<"bbc">>}

\* values of search_type: the four modes and one that is none of them
SearchTypes == {"documents", "snippets", "pages", "advanced", "fuzzy"}

\* the query and the reranker name a caller gives
QueryRerankers ==
    { [query |-> "q1", reranker |-> "zerank-1-small"],
      [query |-> "q2", reranker |-> "zerank-1"] }

\* whether the index service takes a Result object for a filter: an object
\* passes None, and passes a dict when its metadata has the value of every clause
Matches(object, filter) ==
    \/ filter.is_none
    \/ \A field \in DOMAIN filter.clauses :
          /\ "metadata" \in DOMAIN object
          /\ field \in DOMAIN object.metadata
          /\ object.metadata[field] = filter.clauses[field].eq

\* the service call behind search_documents, search_snippets and search_pages
RetrievalOp(search_type) ==
    CASE search_type = "documents" -> "top_documents"
      [] search_type = "snippets" -> "top_snippets"
      [] search_type = "pages" -> "top_pages"

\* Result objects the service can return for each retrieval call, before
\* their score: path is always there, the other attributes may be missing.
ResultObjects(op) ==
    CASE op = "top_documents" ->
            { [path |-> "d1"],
              [path |-> "d2", metadata |-> [title |-> "t2", creator |-> "bbc"]],
              [path |-> "d3", file_url |-> <<"u3">>,
               metadata |-> [title |-> "t3", creator |-> "cnn", categories |-> "bbc"]] }
      [] op = "top_snippets" ->
            { [path |-> "d1"],
              [path |-> "d2", start_index |-> 3, end_index |-> 9, page_span |-> <<0, 1>>,
               content |-> "c2", metadata |-> [title |-> "t2", creator |-> "bbc"]],
              [path |-> "d3", start_index |-> 20, end_index |-> 25, page_span |-> <<1, 2>>,
               content |-> "c3",
               metadata |-> [title |-> "t3", creator |-> "cnn", categories |-> "bbc"]] }
      [] op = "top_pages" ->
            { [path |-> "d1"],
              [path |-> "d2", page_index |-> 0, content |-> "c2",
               metadata |-> [title |-> "t2", creator |-> "bbc"]],
              [path |-> "d3", page_index |-> 1, content |-> "c3",
               metadata |-> [title |-> "t3", creator |-> "bbc", categories |-> "bbc"]] }

\* response.results of a retrieval call for kk results under a filter: at
\* most kk of the objects the filter takes, each with a score
RetrievalResponses(op, kk, filter) ==
    LET objects == {o \in ResultObjects(op) : Matches(o, filter)}
    IN  UNION { { [j \in 1..n |-> DictSet(ds[j], "score", sc[j])] :
                    ds \in Injections(n, objects), sc \in [1..n -> BroadScores] } :
                n \in 0..Min(kk, Cardinality(objects)) }

\* the result_dict built from one Result object
ResultDict(op, result) ==
    CASE op = "top_documents" ->
            [path |-> result.path, score |-> result.score,
             file_url |-> DictGet(result, "file_url", None),
             metadata |-> DictGet(result, "metadata", EmptyDict)]
      [] op = "top_snippets" ->
            [path |-> result.path, score |-> result.score,
             start_index |-> DictGet(result, "start_index", 0),
             end_index |-> DictGet(result, "end_index", 0),
             page_span |-> DictGet(result, "page_span", <<>>),
             content |-> DictGet(result, "content", ""),
             metadata |-> DictGet(result, "metadata", EmptyDict)]
      [] op = "top_pages" ->
            [path |-> result.path, score |-> result.score,
             page_index |-> DictGet(result, "page_index", 0),
             content |-> DictGet(result, "content", ""),
             metadata |-> DictGet(result, "metadata", EmptyDict)]

\* ConvertResults as it would be with each result inserted at the front
ConvertResults_reversed(op, results) ==
    [j \in 1..Len(results) |-> ResultDict(op, results[Len(results) + 1 - j])]

\* "for result in response.results: ... results.append(result_dict)"
ConvertResults(op, results) ==
    [j \in 1..Len(results) |-> ResultDict(op, results[j])]

\* The documents of the collection the broad stage can return when the
\* router calls search_and_rerank.
RouteDocs ==
    { [path |-> "d1", metadata |-> [title |-> "t1"]],
      [path |-> "d2", metadata |-> [title |-> "t2", creator |-> "bbc"]],
      [path |-> "d3", metadata |-> [title |-> "t3", creator |-> "cnn", categories |-> "bbc"]],
      [path |-> "d4", metadata |-> [title |-> "t4", creator |-> "cnn", description |-> "s4"]] }

\* What search_and_rerank(rerank_top_n=top_n) can end in, as its caller sees
\* it, once the broad stage has answered with candidates: [] when there is no
\* candidate, an exception (of get_document_info or of the rerank call), or
\* the merged results. The reranker's response depends on the number of
\* texts only, so the texts are taken with every candidate on its fallback text.
SearchAndRerank(candidates, top_n) ==
    IF NoCandidates(candidates)
    THEN {[ok |-> TRUE, ncandidates |-> 0, results |-> <<>>]}
    ELSE LET texts == [j \in 1..Len(candidates) |-> FallbackText(candidates[j].metadata)]
             n == Len(candidates)
         IN  {[ok |-> FALSE, ncandidates |-> n, results |-> <<>>]} \cup
             { [ok |-> TRUE, ncandidates |-> n,
                results |-> FinalResults(candidates, reranked)] :
                   reranked \in RerankResponses(n, RerankTopN(top_n, texts)) }

\* AdvancedArgs as it would be with the pool not doubled
AdvancedArgs_not_doubled(kk, filter, reranker) ==
    [k |-> kk, rerank_top_n |-> kk, filter |-> NoFilter, reranker |-> None]

\* AdvancedArgs as it would be with the filter and the reranker handed on
AdvancedArgs_filter_passed(kk, filter, reranker) ==
    [k |-> kk * 2, rerank_top_n |-> kk, filter |-> filter, reranker |-> <<reranker>>]

\* search_and_rerank(query=query, k=k * 2, rerank_top_n=k): what the broad
\* stage is called with; filter_dict and reranker are not among the arguments
AdvancedArgs(kk, filter, reranker) ==
    [k |-> kk * 2, rerank_top_n |-> kk, filter |-> NoFilter, reranker |-> None]

\* What the router ends in when search_type is none of the four modes:
\* search_articles has no else branch and reaches "return results" with
\* results unbound; get_search_results has "else: results = []".
UnknownMode(impl) ==
    IF impl = "search_articles"
    THEN [rpc |-> "raised", error |-> "UnboundLocalError"]
    ELSE [rpc |-> "done", error |-> "none"]

RCall(op, query, kk, filter, reranker, top_n, ok) ==
    [op |-> op, query |-> query, k |-> kk, filter |-> filter, reranker |-> reranker,
     top_n |-> top_n, ok |-> ok]

\* the reranker argument of the retrieval call behind a search function:
\* search_pages has none
RerankerArg(op, reranker) == IF op = "top_pages" THEN None ELSE <<reranker>>

\* the router's search_and_rerank call ends in out
AdvancedEnds(status, query, args, out) ==
    /\ rcalls' = status \o <<RCall("search_and_rerank", query, args.k, args.filter,
                                   args.reranker, args.rerank_top_n, out.ok)>>
    /\ response' = <<>>
    /\ ncandidates' = out.ncandidates
    /\ route_results' = out.results
    /\ rpc' = IF out.ok THEN "done" ELSE "raised"
    /\ error' = IF out.ok THEN "none" ELSE "ServiceError"

\* One call of the router impl, from its first line to its return or to the
\* exception that leaves it.
Route(impl, query, search_type, kk, filter_creator, filter_category, reranker, show_status) ==
    /\ rpc = "idle"
    /\ request' = [impl |-> impl, query |-> query, search_type |-> search_type, k |-> kk,
                   filter_creator |-> filter_creator, filter_category |-> filter_category,
                   reranker |-> reranker, show_status |-> show_status]
    /\ \/ \* "if show_status: await self.searcher.get_collection_status()" fails
          /\ show_status
          /\ rcalls' = <<RCall("status_get", "", 0, NoFilter, None, 0, FALSE)>>
          /\ filter_dict' = NoFilter
          /\ response' = <<>>
          /\ ncandidates' = 0
          /\ route_results' = <<>>
          /\ rpc' = "raised"
          /\ error' = "ServiceError"
       \/ LET status == IF show_status
                        THEN <<RCall("status_get", "", 0, NoFilter, None, 0, TRUE)>>
                        ELSE <<>>
              filter == BuildFilter(filter_creator, filter_category)
          IN  /\ filter_dict' = filter
              /\ IF search_type \in {"documents", "snippets", "pages"}
                 THEN LET op == RetrievalOp(search_type)
                      IN  /\ ncandidates' = 0
                          /\ \/ /\ rcalls' = status \o <<RCall(op, query, kk, filter,
                                                RerankerArg(op, reranker), 0, FALSE)>>
                                /\ response' = <<>>
                                /\ route_results' = <<>>
                                /\ rpc' = "raised"
                                /\ error' = "ServiceError"
                             \/ /\ rcalls' = status \o <<RCall(op, query, kk, filter,
                                                RerankerArg(op, reranker), 0, TRUE)>>
                                /\ \E results \in RetrievalResponses(op, kk, filter) :
                                      /\ response' = results
                                      /\ route_results' = ConvertResults(op, results)
                                /\ rpc' = "done"
                                /\ error' = "none"
                 ELSE IF search_type = "advanced"
                 THEN LET args == AdvancedArgs(kk, filter, reranker)
                          failed == [ok |-> FALSE, ncandidates |-> 0, results |-> <<>>]
                      IN  \/ AdvancedEnds(status, query, args, failed)
                          \/ \E candidates \in TopDocumentsOver(args.k,
                                    {d \in RouteDocs : Matches(d, args.filter)}) :
                             \E out \in SearchAndRerank(candidates, args.rerank_top_n) :
                                AdvancedEnds(status, query, args, out)
                 ELSE /\ rcalls' = status
                      /\ response' = <<>>
                      /\ ncandidates' = 0
                      /\ route_results' = <<>>
                      /\ rpc' = UnknownMode(impl).rpc
                      /\ error' = UnknownMode(impl).error
    /\ UNCHANGED <<status_response, status_returned>>
    /\ UNCHANGED <<ingestVars, keyVars, mergeVars, metaVars, scrapeVars, deleteVars>>

\* ZeroEntropyArticleManager.search_articles(query, search_type, k, filter_creator,
\* filter_category, reranker, show_status)
search_articles(query, search_type, kk, filter_creator, filter_category, reranker, show_status) ==
    Route("search_articles", query, search_type, kk, filter_creator, filter_category,
          reranker, show_status)

\* get_search_results(query, search_type, k, collection_name, filter_creator,
\* filter_category, reranker)
get_search_results(query, search_type, kk, filter_creator, filter_category, reranker) ==
    Route("get_search_results", query, search_type, kk, filter_creator, filter_category,
          reranker, FALSE)

\* What zclient.status.get can answer: a collection of no or of two
\* documents, each of them indexed, being parsed, being indexed or failed.
StatusResponses ==
    {Counters(0, 0, 0, 0, 0)} \cup
    { Counters(2, i, p, x, f) : i \in 0..2, p \in 0..1, x \in 0..1, f \in 0..1 }

\* StatusReturned as it would be with the failed documents left out
StatusReturned_failed_dropped(status) == [status EXCEPT !.num_failed_documents = 0]

\* "status = await self.zclient.status.get(...)", five print calls, "return status"
StatusReturned(status) == status

\* ZeroEntropyArticleSearcher.get_collection_status() called on its own
\* ("manage status", the status panel of the front end)
get_collection_status ==
    /\ rpc = "idle"
    /\ request' = [NoRequest EXCEPT !.impl = "get_collection_status"]
    /\ \/ /\ rcalls' = <<RCall("status_get", "", 0, NoFilter, None, 0, FALSE)>>
          /\ rpc' = "raised"
          /\ error' = "ServiceError"
          /\ UNCHANGED <<status_response, status_returned>>
       \/ /\ rcalls' = <<RCall("status_get", "", 0, NoFilter, None, 0, TRUE)>>
          /\ \E status \in StatusResponses :
                /\ status_response' = status
                /\ status_returned' = StatusReturned(status)
          /\ rpc' = "done"
          /\ error' = "none"
    /\ UNCHANGED <<filter_dict, response, ncandidates, route_results>>
    /\ UNCHANGED <<ingestVars, keyVars, mergeVars, metaVars, scrapeVars, deleteVars>>

\* the call of the router is over (returned, or left by an exception)
route_end ==
    /\ rpc \in {"done", "raised"}
    /\ rpc' = "idle"
    /\ request' = NoRequest
    /\ filter_dict' = NoFilter
    /\ rcalls' = <<>>
    /\ response' = <<>>
    /\ ncandidates' = 0
    /\ route_results' = <<>>
    /\ error' = "none"
    /\ status_response' = NoStatus
    /\ status_returned' = NoStatus
    /\ UNCHANGED <<ingestVars, keyVars, mergeVars, metaVars, scrapeVars, deleteVars>>

NextRoute ==
    \/ get_collection_status
    \/ \E qr \in QueryRerankers : \E search_type \in SearchTypes : \E kk \in 0..MaxRouteK :
       \E filter_creator \in OptStrings : \E filter_category \in OptStrings :
       \E show_status \in BOOLEAN :
          search_articles(qr.query, search_type, kk, filter_creator, filter_category,
                          qr.reranker, show_status)
    \/ \E qr \in QueryRerankers : \E search_type \in SearchTypes : \E kk \in 0..MaxRouteK :
       \E filter_creator \in OptStrings : \E filter_category \in OptStrings :
          get_search_results(qr.query, search_type, kk, filter_creator, filter_category,
                             qr.reranker)
    \/ route_end

\* the router is explored in one process: it computes no str hash
InitRoute == Init /\ hashsalt = 0

SpecRoute == InitRoute /\ [][NextRoute]_vars


----------------------------------------------------------------------------
(* The metadata record index_articles builds for an article *)

\* a str of n characters; the strings of different tags differ from the
\* first character on
Str(tag, n) == [i \in 1..n |-> Digit[((i + tag) % 10) + 1]]

\* lengths the str fields of an article are taken with, around the cap the
\* code puts on the field
LengthsAround(cap) == {0, cap, cap + Overrun}

\* lengths of the categories of an article: none, one, six short ones, two
\* and six long ones
CategoryLengths ==
    { <<>>, <<3>>, <<3, 3, 3, 3, 3, 3>>, <<160, 160>>, <<60, 60, 60, 60, 60, 60>> }

\* the articles metadata is built for, each given by the lengths of its fields
MetaArticles ==
    [title : LengthsAround(500), creator : LengthsAround(200),
     categories : CategoryLengths, pub_date : LengthsAround(100),
     source_url : LengthsAround(300)]

\* the article of the given lengths
MetaArticle(a) ==
    [title |-> Str(1, a.title),
     creator |-> Str(2, a.creator),
     categories |-> [j \in 1..Len(a.categories) |-> Str(j, a.categories[j])],
     pub_date |-> Str(3, a.pub_date),
     source_url |-> Str(4, a.source_url)]

RECURSIVE Join(_)
\* ", ".join(list)
Join(list) ==
    IF list = <<>> THEN <<>>
    ELSE IF Len(list) = 1 THEN list[1]
    ELSE list[1] \o <<",", " ">> \o Join(Tail(list))

\* Metadata as it would be without the cap on the joined categories
Metadata_categories_uncapped(article) ==
    [title |-> Slice(article.title, 500),
     creator |-> Slice(article.creator, 200),
     categories |-> Join(Slice(article.categories, 5)),
     pub_date |-> Slice(article.pub_date, 100),
     source_url |-> Slice(article.source_url, 300),
     type |-> "rss_article"]

\* metadata = {"title": article["title"][:500], "creator": article["creator"][:200],
\*             "categories": ", ".join(article["categories"][:5])[:300],
\*             "pub_date": article["pub_date"][:100],
\*             "source_url": article["source_url"][:300], "type": "rss_article"}
Metadata(article) ==
    [title |-> Slice(article.title, 500),
     creator |-> Slice(article.creator, 200),
     categories |-> Slice(Join(Slice(article.categories, 5)), 300),
     pub_date |-> Slice(article.pub_date, 100),
     source_url |-> Slice(article.source_url, 300),
     type |-> "rss_article"]

\* the loop body of index_articles up to the documents.add call, for article a
index_articles_metadata(a) ==
    /\ article_metadata = NoMetadata
    /\ meta_article' = a
    /\ article_metadata' = Metadata(MetaArticle(a))
    /\ UNCHANGED <<ingestVars, keyVars, mergeVars, routeVars, scrapeVars, deleteVars>>

\* the record has been passed to documents.add: the loop goes on
index_articles_metadata_end ==
    /\ article_metadata # NoMetadata
    /\ meta_article' = NoArticle
    /\ article_metadata' = NoMetadata
    /\ UNCHANGED <<ingestVars, keyVars, mergeVars, routeVars, scrapeVars, deleteVars>>

NextMeta ==
    \/ \E a \in MetaArticles : index_articles_metadata(a)
    \/ index_articles_metadata_end

SpecMeta == Init /\ [][NextMeta]_vars

----------------------------------------------------------------------------
(* ZeroEntropyArticleIndexer.get_rss_feed_content: the article built from a  *)
(* feed item.  A text is a sequence of tokens: words, the line break "\n",   *)
(* "<script>" and "<style>" standing for a whole script or style element,    *)
(* and "<p>" for any other tag.                                              *)

\* the value of a field whose element the item does not have
NA == <<"N/A">>

RECURSIVE StripLeft(_)
StripLeft(s) == IF s # <<>> /\ Head(s) = "\n" THEN StripLeft(Tail(s)) ELSE s

RECURSIVE StripRight(_)
StripRight(s) ==
    IF s # <<>> /\ s[Len(s)] = "\n" THEN StripRight(SubSeq(s, 1, Len(s) - 1)) ELSE s

\* str.strip()
StripText(s) == StripRight(StripLeft(s))

\* item.find(name).get_text(strip=True) if item.find(name) else "N/A"
FieldText(element) == IF element.present THEN StripText(element.text) ELSE NA

IsElement(t) == t \in {"<script>", "<style>", "<p>"}

RECURSIVE TextNodes(_)
\* the text nodes of the document html.parser builds from a text: the runs of
\* tokens between the elements, the script and style elements being removed
\* ("decompose") with what they hold
TextNodes(text) ==
    IF text = <<>> THEN << <<>> >>
    ELSE LET rest == TextNodes(Tail(text))
         IN  IF IsElement(Head(text)) THEN << <<>> >> \o rest
             ELSE << <<Head(text)>> \o rest[1] >> \o Tail(rest)

RECURSIVE JoinSpace(_)
\* " ".join of the nodes that are not empty once stripped
JoinSpace(nodes) ==
    IF nodes = <<>> THEN <<>>
    ELSE LET first == StripText(Head(nodes))
             rest == JoinSpace(Tail(nodes))
         IN  IF first = <<>> THEN rest
             ELSE IF rest = <<>> THEN first
             ELSE first \o <<" ">> \o rest

\* soup = BeautifulSoup(text, "html.parser"); the script and style elements
\* decomposed; soup.get_text(separator=" ", strip=True).replace("\n", " ")
CleanText(text) ==
    LET joined == JoinSpace(TextNodes(text))
    IN  [i \in 1..Len(joined) |-> IF joined[i] = "\n" THEN " " ELSE joined[i]]

\* content_text: from content_encoded unless it is "N/A", else from description
ContentOf(content_encoded, description) ==
    IF content_encoded # NA THEN CleanText(content_encoded) ELSE CleanText(description)

\* texts an element of a feed item can hold
FieldTexts ==
    { <<>>, <<"a">>, <<"\n", "a", "\n", "b", "\n">>, <<"<script>">>,
      <<"<p>", "a", "<style>", "b">>, <<"N/A">> }

\* the elements: missing, or holding one of the texts
Elements ==
    {[present |-> FALSE, text |-> <<>>]} \cup {[present |-> TRUE, text |-> t] : t \in FieldTexts}

\* the feed items, by their content:encoded and description elements
FeedItems == [content_encoded : Elements, description : Elements]

\* the dict get_rss_feed_content appends for an item of the feed url
ArticleOf(item, url) ==
    LET description == FieldText(item.description)
        content_encoded == FieldText(item.content_encoded)
    IN  [item |-> item,
         description |-> description,
         content |-> ContentOf(content_encoded, description),
         source_url |-> url]

----------------------------------------------------------------------------
(* ZeroEntropyArticleManager.scrape_and_index: the collection is            *)
(* initialized, every feed is fetched in turn, and the articles gathered     *)
(* are handed to index_articles.                                             *)

\* number of feed urls of the model (rss_public_urls + rss_vsd_urls has 10)
NumFeeds == 2

\* the feed urls, by their rank in rss_public_urls + rss_vsd_urls
FeedUrls == 1..NumFeeds

\* self.collection_name
collection_name == "articles"

\* What zclient.collections.add can do: the service refuses a name it has
\* with ConflictError, and any call can fail otherwise
CollectionAddOutcomes(name) ==
    IF \E n \in 1..Len(collections) : collections[n] = name
    THEN {"conflict", "failed"}
    ELSE {"created", "failed"}

\* AfterCreate as it would be without the "except ConflictError" clause
AfterCreate_conflict_raises(outcome) ==
    IF outcome = "created" THEN "returned" ELSE "raised"

\* initialize_collection's handling of the outcome of collections.add: only
\* ConflictError is caught, and logged
AfterCreate(outcome) ==
    IF outcome \in {"created", "conflict"} THEN "returned" ELSE "raised"

\* What get_rss_feed_content(url) can do: requests.get or raise_for_status
\* raises, or the feed is parsed and the list of its articles returned
FeedResponses(url) ==
    {[ok |-> FALSE, content |-> <<>>]}
        \cup {[ok |-> TRUE, content |-> <<>>]}
        \cup {[ok |-> TRUE, content |-> <<ArticleOf(item, url)>>] : item \in FeedItems}

\* AfterFetch as it would be with the fetch in a try block that skips the feed
AfterFetch_skips_failed(feed, gathered) ==
    IF feed.ok THEN [raised |-> FALSE, articles |-> gathered \o feed.content]
    ELSE [raised |-> FALSE, articles |-> gathered]

\* The loop body of scrape_and_index: nothing catches what
\* get_rss_feed_content raises; "if content: articles.extend(content)"
AfterFetch(feed, gathered) ==
    IF feed.ok THEN [raised |-> FALSE, articles |-> gathered \o feed.content]
    ELSE [raised |-> TRUE, articles |-> gathered]

\* What index_articles(articles) can do for its caller: return, or raise what
\* a failed write raised (its writes are the index_articles_write steps)
IndexOutcomes == {"returned", "raised"}

\* an entry of the history of the run
SCall(op, arg, outcome) == [op |-> op, arg |-> arg, outcome |-> outcome]

\* scrape_and_index is called: await self.indexer.initialize_collection()
initialize_collection ==
    /\ spc = "idle"
    /\ \E outcome \in CollectionAddOutcomes(collection_name) :
          /\ collections' = IF outcome = "created"
                            THEN Append(collections, collection_name)
                            ELSE collections
          /\ slog' = <<SCall("collections.add", 0, outcome)>>
          /\ spc' = IF AfterCreate(outcome) = "returned" THEN "fetch" ELSE "raised"
    /\ feed_idx' = 0
    /\ scraped' = <<>>
    /\ UNCHANGED <<ingestVars, keyVars, mergeVars, routeVars, metaVars, deleteVars>>

\* one iteration of "for url in rss_public_urls + rss_vsd_urls"
scrape_fetch ==
    /\ spc = "fetch"
    /\ feed_idx < NumFeeds
    /\ LET url == feed_idx + 1
       IN  \E feed \in FeedResponses(url) :
              LET r == AfterFetch(feed, scraped)
              IN  /\ scraped' = r.articles
                  /\ slog' = Append(slog, SCall("get_rss_feed_content", url,
                                                IF feed.ok THEN "returned" ELSE "raised"))
                  /\ spc' = IF r.raised THEN "raised" ELSE "fetch"
                  /\ feed_idx' = IF r.raised THEN feed_idx ELSE feed_idx + 1
    /\ UNCHANGED collections
    /\ UNCHANGED <<ingestVars, keyVars, mergeVars, routeVars, metaVars, deleteVars>>

\* the loop is exhausted: "if articles: await self.indexer.index_articles(articles)"
scrape_index ==
    /\ spc = "fetch"
    /\ feed_idx = NumFeeds
    /\ IF scraped # <<>>
       THEN \E outcome \in IndexOutcomes :
               /\ slog' = Append(slog, SCall("index_articles", Len(scraped), outcome))
               /\ spc' = IF outcome = "returned" THEN "done" ELSE "raised"
       ELSE /\ spc' = "done"
            /\ UNCHANGED slog
    /\ UNCHANGED <<collections, feed_idx, scraped>>
    /\ UNCHANGED <<ingestVars, keyVars, mergeVars, routeVars, metaVars, deleteVars>>

\* the run is over (returned, or left by an exception); the collection stays
scrape_end ==
    /\ spc \in {"done", "raised"}
    /\ spc' = "idle"
    /\ feed_idx' = 0
    /\ scraped' = <<>>
    /\ slog' = <<>>
    /\ UNCHANGED collections
    /\ UNCHANGED <<ingestVars, keyVars, mergeVars, routeVars, metaVars, deleteVars>>

NextScrape ==
    \/ initialize_collection
    \/ scrape_fetch
    \/ scrape_index
    \/ scrape_end

InitScrape == Init /\ hashsalt = 0

SpecScrape == InitScrape /\ [][NextScrape]_vars

----------------------------------------------------------------------------
(* ZeroEntropyUtils.batch_delete_documents: the documents of a list of      *)
(* paths are deleted one after the other by delete_document.                 *)

\* longest list of paths of the model
MaxPaths == 2

\* the document paths a caller can name: those of the collection and one
\* that no document has
DeletePaths == DOMAIN documents \cup {<<"g", "o", "n", "e">>}

\* the lists of paths batch_delete_documents is called with
DeletePathLists == UNION {[1..n -> DeletePaths] : n \in 0..MaxPaths}

\* What zclient.documents.delete can do for a path: the service answers a
\* path it does not have with an error, and any call can fail otherwise
DeleteOutcomes(path) ==
    IF path \in DOMAIN documents THEN {"deleted", "failed"} ELSE {"failed"}

\* delete_document: True when documents.delete returned; nothing catches
\* what it raises, here or in the loop of batch_delete_documents
AfterDelete(outcome) ==
    IF outcome = "deleted" THEN [raised |-> FALSE, success |-> TRUE]
    ELSE [raised |-> TRUE, success |-> FALSE]

\* batch_delete_documents(paths) is called: results = {}
batch_delete_documents_start(path_list) ==
    /\ dpc = "idle"
    /\ delete_paths' = path_list
    /\ delete_idx' = 0
    /\ delete_results' = EmptyDict
    /\ dlog' = <<>>
    /\ dpc' = "loop"
    /\ UNCHANGED <<ingestVars, keyVars, mergeVars, routeVars, metaVars, scrapeVars>>

\* one iteration of "for path in paths"
batch_delete_documents_delete ==
    /\ dpc = "loop"
    /\ delete_idx < Len(delete_paths)
    /\ LET path == delete_paths[delete_idx + 1]
       IN  \E outcome \in DeleteOutcomes(path) :
              LET r == AfterDelete(outcome)
              IN  /\ documents' = IF outcome = "deleted"
                                  THEN [p \in DOMAIN documents \ {path} |-> documents[p]]
                                  ELSE documents
                  /\ dlog' = Append(dlog, [path |-> path, outcome |-> outcome])
                  /\ delete_results' = IF r.raised THEN delete_results
                                       ELSE DictSet(delete_results, path, r.success)
                  /\ dpc' = IF r.raised THEN "raised" ELSE "loop"
                  /\ delete_idx' = IF r.raised THEN delete_idx ELSE delete_idx + 1
    /\ UNCHANGED delete_paths
    /\ UNCHANGED <<hashsalt, ncalls, ipc, articles, idx, indexed_count, failed_count, writeLog>>
    /\ UNCHANGED <<keyVars, mergeVars, routeVars, metaVars, scrapeVars>>

\* the loop is exhausted: return results
batch_delete_documents_return ==
    /\ dpc = "loop"
    /\ delete_idx = Len(delete_paths)
    /\ dpc' = "done"
    /\ UNCHANGED <<delete_paths, delete_idx, delete_results, dlog>>
    /\ UNCHANGED <<ingestVars, keyVars, mergeVars, routeVars, metaVars, scrapeVars>>

\* the call is over (returned, or left by the exception)
batch_delete_documents_end ==
    /\ dpc \in {"done", "raised"}
    /\ dpc' = "idle"
    /\ delete_paths' = <<>>
    /\ delete_idx' = 0
    /\ delete_results' = EmptyDict
    /\ dlog' = <<>>
    /\ UNCHANGED <<ingestVars, keyVars, mergeVars, routeVars, metaVars, scrapeVars>>

\* the documents deleted are those index_articles wrote
NextDelete ==
    \/ \E batch \in Batches : index_articles_start(batch)
    \/ index_articles_write
    \/ index_articles_finish
    \/ index_articles_end
    \/ \E path_list \in DeletePathLists : batch_delete_documents_start(path_list)
    \/ batch_delete_documents_delete
    \/ batch_delete_documents_return
    \/ batch_delete_documents_end

InitDelete == Init /\ hashsalt = 0

SpecDelete == InitDelete /\ [][NextDelete]_vars

----------------------------------------------------------------------------
(* Properties of index_articles *)

\* number of documents.add calls of this index_articles call that ended in o
NumOutcome(o) == Cardinality({n \in 1..Len(writeLog) : writeLog[n].outcome = o})

LastOutcome == IF writeLog = <<>> THEN "none" ELSE writeLog[Len(writeLog)].outcome

\* C1: when index_articles is over, every article of the batch has been
\* attempted and failed_count counts the writes that failed with an error
\* other than a conflict: such a failure never aborts the batch.
C1_FailSoft ==
    ipc \in {"done", "raised"} =>
        /\ ipc = "done"
        /\ Len(writeLog) = Len(articles)
        /\ failed_count = NumOutcome("failed")

\* C2: a write refused with ConflictError raises nothing, adds to neither
\* counter, and the next article is attempted; a batch of n articles with m
\* conflicts and no other failure returns with indexed_count = n - m.
C2_ConflictSkipped ==
    /\ ipc # "idle" =>
        /\ indexed_count = NumOutcome("written")
        /\ failed_count <= NumOutcome("failed")
    /\ LastOutcome = "conflict" =>
        /\ ipc \in {"loop", "done"}
        /\ idx = Len(writeLog)
    /\ (ipc = "done" /\ NumOutcome("failed") = 0) =>
        /\ Len(writeLog) = Len(articles)
        /\ indexed_count = Len(articles) - NumOutcome("conflict")

\* a returned call whose first write was a conflict and whose second was stored
C2_Witness ==
    /\ ipc = "done"
    /\ Len(articles) = 2
    /\ writeLog[1].outcome = "conflict"
    /\ writeLog[2].outcome = "written"
    /\ indexed_count = 1

\* C3: the same article ingested at the same ordinal any number of times is
\* stored once: the collection never holds two documents that came from the
\* same article at the same ordinal.
C3_SameOrdinalStoredOnce ==
    \A p, q \in DOMAIN documents :
        (documents[p].article = documents[q].article
            /\ documents[p].idx = documents[q].idx) => p = q

\* C4: an article gets the same key wherever it stands in a batch, so the
\* collection never holds two documents for one article.
C4_OneDocumentPerArticle ==
    \A p, q \in DOMAIN documents :
        documents[p].article = documents[q].article => p = q

TitlePrefix(a) == Slice(ArticleDict[a].title, TitlePrefixLen)

\* C5: the key is a function of the ordinal and the first 50 characters of
\* the title alone: two key computations with the same ordinal and the same
\* title prefix give the same key, in one run or in two, whatever the other
\* fields of the articles are.
C5_KeyIsPureFunction ==
    \A m, n \in 1..Len(keyLog) :
        (keyLog[m].idx = keyLog[n].idx
            /\ TitlePrefix(keyLog[m].article) = TitlePrefix(keyLog[n].article))
        => keyLog[m].key = keyLog[n].key

\* C6: keys computed at two different ordinals differ, whatever the titles
\* and their hash values.
C6_OrdinalsNeverCollide ==
    \A m, n \in 1..Len(keyLog) :
        keyLog[m].idx # keyLog[n].idx => keyLog[m].key # keyLog[n].key

\* the same title at a one-digit and at a two-digit ordinal, its hash negative
C6_Witness ==
    /\ Len(keyLog) = 2
    /\ keyLog[1].article = keyLog[2].article
    /\ keyLog[1].idx = 1
    /\ keyLog[2].idx >= 10
    /\ pyhash(TitlePrefix(keyLog[2].article)) < 0

\* C25: every call of index_articles, whatever the outcomes of its writes,
\* ends at its last line, where the pair (indexed_count, failed_count) is
\* reported, every article having been attempted.
C25_AlwaysReportsCounts ==
    ipc \in {"done", "raised"} =>
        /\ ipc = "done"
        /\ idx = Len(articles)

\* C29: at every point of an index_articles run indexed_count is the number
\* of documents the run has stored, indexed_count plus the conflicts skipped
\* plus failed_count is the number of write attempts that have completed,
\* and the writes are made one at a time in the order of the batch.
C29_CountersAccountForWrites ==
    ipc # "idle" =>
        /\ indexed_count = NumOutcome("written")
        /\ indexed_count + NumOutcome("conflict") + failed_count = Len(writeLog)
        /\ Len(writeLog) <= Len(articles)
        /\ \A n \in 1..Len(writeLog) :
            writeLog[n].path = doc_path(n - 1, ArticleDict[articles[n]])

----------------------------------------------------------------------------
(* Properties of search_and_rerank *)

\* the service calls of this search_and_rerank call with operation op
CallsOf(op) == {n \in 1..Len(calls) : calls[n].op = op}

\* C7: every returned item, made from the reranker's pair {index i,
\* relevance_score r}, has the path and metadata of the i-th broad-stage
\* candidate, that candidate's score as original_score, and r as rerank_score.
C7_MergeKeepsBothScores ==
    mpc = "done" =>
        /\ Len(final_results) = Len(rerank_results)
        /\ \A j \in 1..Len(final_results) :
              LET candidate == search_results[rerank_results[j].index + 1]
              IN  /\ final_results[j].path = candidate.path
                  /\ final_results[j].metadata = candidate.metadata
                  /\ final_results[j].original_score = candidate.score
                  /\ final_results[j].rerank_score = rerank_results[j].relevance_score

\* a returned merge whose reranker moved the last of three candidates first
C7_Witness ==
    /\ mpc = "done"
    /\ Len(search_results) = 3
    /\ Len(final_results) >= 2
    /\ rerank_results[1].index = 2
    /\ final_results[1].path = search_results[3].path
    /\ search_results[3].score # search_results[1].score

\* C8: the returned sequence is never longer than min(rerank_top_n, number
\* of broad-stage candidates).
C8_OutputLengthBound ==
    mpc = "done" => Len(final_results) <= Min(rerank_top_n, Len(search_results))

\* a returned merge cut to rerank_top_n = 2 of 3 candidates
C8_Witness ==
    /\ mpc = "done"
    /\ Len(search_results) = 3
    /\ rerank_top_n = 2
    /\ Len(final_results) = 2

\* C9: when the broad stage returns no candidate, search_and_rerank returns
\* the empty list and calls neither get_document_info nor the reranker.
C9_EmptyShortCircuit ==
    (mpc # "idle" /\ calls[1].ok /\ search_results = <<>>) =>
        /\ mpc = "done"
        /\ final_results = <<>>
        /\ CallsOf("get_info") = {}
        /\ CallsOf("rerank") = {}

\* a returned merge whose broad stage, asked for k > 0, found nothing
C9_Witness ==
    /\ mpc = "done"
    /\ k > 0
    /\ rerank_top_n > 0
    /\ search_results = <<>>
    /\ Len(calls) = 1

\* C10: every rerank call asks for top_n = min(rerank_top_n, number of texts
\* submitted), which is never more than the number of texts submitted.
C10_TopNCapped ==
    \A n \in CallsOf("rerank") :
        /\ calls[n].n = Min(rerank_top_n, calls[n].ndocs)
        /\ calls[n].n <= calls[n].ndocs

\* a rerank call made with rerank_top_n larger than the number of texts
C10_Witness ==
    \E n \in CallsOf("rerank") :
        /\ rerank_top_n > calls[n].ndocs
        /\ calls[n].n = calls[n].ndocs
        /\ calls[n].ok

\* the text search_and_rerank owes the reranker for candidate j: the fetched
\* content, or the title and description of the candidate's metadata
TextOwed(j) ==
    IF doc_infos[j].present /\ doc_infos[j].content # <<>>
    THEN doc_infos[j].content
    ELSE <<DictGet(search_results[j].metadata, "title", ""), " ",
           DictGet(search_results[j].metadata, "description", "")>>

\* C11: the texts built for the reranker hold one text per candidate fetched,
\* in candidate order, a candidate without content standing with its fallback
\* text; the reranker is called with as many texts as there are candidates.
C11_OneTextPerCandidate ==
    /\ mpc \in {"hydrate", "done"} =>
        /\ Len(document_texts) = Len(doc_infos)
        /\ \A j \in 1..Len(doc_infos) : document_texts[j] = TextOwed(j)
    /\ \A n \in CallsOf("rerank") :
        /\ calls[n].ndocs = Len(search_results)
        /\ Len(document_texts) = Len(search_results)

\* the reranker was called for three candidates: the first without a
\* document, the second with empty content, the third with content
C11_Witness ==
    /\ CallsOf("rerank") # {}
    /\ Len(search_results) = 3
    /\ ~doc_infos[1].present
    /\ doc_infos[2].present /\ doc_infos[2].content = <<>>
    /\ doc_infos[3].content # <<>>
    /\ document_texts[1] # document_texts[2]

\* C12: a get_document_info call that fails does not end search_and_rerank:
\* the candidate stands with its fallback text and the call goes on.
C12_FetchFailureNotFatal ==
    \A n \in CallsOf("get_info") :
        ~calls[n].ok =>
            /\ mpc # "raised"
            /\ Len(document_texts) >= calls[n].n
            /\ document_texts[calls[n].n] = FallbackText(search_results[calls[n].n].metadata)

\* C13: when top_documents or the rerank call fails, search_and_rerank ends
\* with the error and has no result sequence, not even a partial one.
C13_StageFailureIsFatal ==
    \A n \in CallsOf("top_documents") \cup CallsOf("rerank") :
        ~calls[n].ok =>
            /\ mpc = "raised"
            /\ n = Len(calls)
            /\ final_results = <<>>
            /\ rerank_results = <<>>

\* the rerank call failed after two candidates were fetched
C13_Witness ==
    /\ mpc = "raised"
    /\ Len(calls) = 4
    /\ calls[4].op = "rerank"
    /\ ~calls[4].ok
    /\ Len(document_texts) = 2

\* the rerank scores of a sequence of items do not increase
Descending(items, field) ==
    \A i, j \in 1..Len(items) : i < j => items[i][field] >= items[j][field]

\* C14: the returned items stand in the order of the reranker's pairs, the
\* j-th item being the candidate the j-th pair names, whatever the scores of
\* the broad stage; they are in descending rerank_score order whenever the
\* reranker's pairs are in descending relevance order.
C14_RerankOrderKept ==
    mpc = "done" =>
        /\ Len(final_results) = Len(rerank_results)
        /\ \A j \in 1..Len(rerank_results) :
            final_results[j].path = search_results[rerank_results[j].index + 1].path
        /\ Descending(rerank_results, "relevance_score")
                => Descending(final_results, "rerank_score")

\* two items returned in descending rerank order against the order and the
\* scores of the broad stage
C14_Witness ==
    /\ mpc = "done"
    /\ Len(final_results) = 2
    /\ final_results[1].rerank_score > final_results[2].rerank_score
    /\ final_results[1].original_score < final_results[2].original_score
    /\ rerank_results[1].index > rerank_results[2].index

----------------------------------------------------------------------------
(* Properties of the query router and of the filter it builds *)

\* the router was left by a failure of the status call, before anything else
StatusFailed == rcalls # <<>> /\ rcalls[1].op = "status_get" /\ ~rcalls[1].ok

\* the router has gone past its first lines
Routed ==
    /\ rpc # "idle"
    /\ request.impl \in {"search_articles", "get_search_results"}
    /\ ~StatusFailed

RCallsOf(ops) == {n \in 1..Len(rcalls) : rcalls[n].op \in ops}

\* C15: in mode advanced with k the router calls search_and_rerank once, with
\* a pool of 2 * k and rerank_top_n = k; when the broad stage gives 2 * k
\* candidates, k >= 1, the call returns exactly k entries.
C15_AdvancedDoublesPool ==
    (Routed /\ request.search_type = "advanced") =>
        /\ Cardinality(RCallsOf({"search_and_rerank"})) = 1
        /\ \A n \in RCallsOf({"search_and_rerank"}) :
            /\ rcalls[n].k = 2 * request.k
            /\ rcalls[n].top_n = request.k
        /\ (rpc = "done" /\ request.k >= 1 /\ ncandidates = 2 * request.k)
                => Len(route_results) = request.k

\* advanced with k = 2 returned 2 entries out of 4 candidates
C15_Witness ==
    /\ rpc = "done"
    /\ request.search_type = "advanced"
    /\ request.k = 2
    /\ ncandidates = 4
    /\ Len(route_results) = 2

\* C16: called with a search_type that is none of the four modes, the router
\* ends in an error reported to its caller: it makes no retrieval call and
\* never returns (an empty result) as if a search had run.
C16_UnknownModeIsAnError ==
    (Routed /\ request.search_type \notin {"documents", "snippets", "pages", "advanced"}) =>
        /\ rpc = "raised"
        /\ error # "none"
        /\ RCallsOf({"top_documents", "top_snippets", "top_pages", "search_and_rerank"}) = {}

\* C17: in the modes documents, snippets and pages the router makes exactly
\* one retrieval call, the one of the mode, with the caller's query and k and
\* the filter built from the caller's filter arguments, and returns its
\* results as they came: as many, in the same order, each with the same path
\* and score.
C17_SingleCallUnmodified ==
    (Routed /\ request.search_type \in {"documents", "snippets", "pages"}) =>
        /\ Cardinality(RCallsOf({"top_documents", "top_snippets", "top_pages",
                                  "search_and_rerank"})) = 1
        /\ \A n \in RCallsOf({"top_documents", "top_snippets", "top_pages"}) :
            /\ rcalls[n].op = (CASE request.search_type = "documents" -> "top_documents"
                                 [] request.search_type = "snippets" -> "top_snippets"
                                 [] request.search_type = "pages" -> "top_pages")
            /\ rcalls[n].query = request.query
            /\ rcalls[n].k = request.k
            /\ rcalls[n].filter = filter_dict
        /\ rpc = "done" =>
            /\ Len(route_results) = Len(response)
            /\ \A j \in 1..Len(response) :
                /\ route_results[j].path = response[j].path
                /\ route_results[j].score = response[j].score

\* mode pages returned two pages of different documents, the lower score first
C17_Witness ==
    /\ rpc = "done"
    /\ request.search_type = "pages"
    /\ request.query = "q2"
    /\ Len(route_results) = 2
    /\ route_results[1].path # route_results[2].path
    /\ route_results[1].score < route_results[2].score
    /\ ~filter_dict.is_none

\* C18: with neither creator nor category the filter built is None, and the
\* filter built is never a dict without clauses.
C18_NoFieldsGivesNone ==
    Routed =>
        /\ (request.filter_creator = <<>> /\ request.filter_category = <<>>)
                => filter_dict.is_none
        /\ ~filter_dict.is_none => DOMAIN filter_dict.clauses # {}

\* a retrieval call was made without a filter for a request without filter arguments
C18_Witness ==
    /\ rpc = "done"
    /\ request.filter_creator = <<>>
    /\ request.filter_category = <<>>
    /\ filter_dict.is_none
    /\ \E n \in RCallsOf({"top_documents"}) : rcalls[n].filter.is_none

\* the filter argument given for a field of the filter
FilterArg(field) ==
    IF field = "creator" THEN request.filter_creator ELSE request.filter_category

\* C19: the filter built has an equality clause for exactly the fields
\* provided, an empty string being a value like another: a field provided as
\* the empty string gives a present filter with a clause on the empty string.
C19_ClauseForEachProvided ==
    Routed =>
        /\ \A field \in {"creator", "categories"} :
            /\ field \in DOMAIN filter_dict.clauses <=> FilterArg(field) # <<>>
            /\ FilterArg(field) # <<>> =>
                    /\ ~filter_dict.is_none
                    /\ filter_dict.clauses[field].eq = FilterArg(field)[1]

\* C19 (amended): the filter built has an equality clause, on the value given,
\* for exactly the fields given as a non-empty string; a field given as the
\* empty string is left out like an absent one, and the filter is None when
\* no field is given as a non-empty string.
C19_ClauseForEachNonEmpty ==
    Routed =>
        /\ \A field \in {"creator", "categories"} :
            LET given == FilterArg(field) # <<>> /\ FilterArg(field) # <<"">>
            IN  /\ field \in DOMAIN filter_dict.clauses <=> given
                /\ given => filter_dict.clauses[field].eq = FilterArg(field)[1]
        /\ filter_dict.is_none <=> DOMAIN filter_dict.clauses = {}
        /\ DOMAIN filter_dict.clauses \subseteq {"creator", "categories"}

\* creator given as the empty string and category as "bbc": one clause, on categories
C19_Witness ==
    /\ Routed
    /\ request.filter_creator = <<"">>
    /\ request.filter_category = <<"bbc">>
    /\ DOMAIN filter_dict.clauses = {"categories"}
    /\ filter_dict.clauses["categories"].eq = "bbc"

----------------------------------------------------------------------------
(* Properties of the metadata record *)

\* p is s[:n] for some n
IsPrefix(p, s) == Len(p) <= Len(s) /\ \A i \in 1..Len(p) : p[i] = s[i]

\* C20: a metadata record built for an article holds at most 500 characters
\* of title, 200 of creator, 300 of joined categories, 100 of publication
\* date and 300 of source URL, each of them a prefix of the article's value
\* (for the categories, of the article's categories joined by ", ").
C20_MetadataCapped ==
    article_metadata.type = "rss_article" =>
        LET article == MetaArticle(meta_article)
        IN  /\ Len(article_metadata.title) <= 500
            /\ IsPrefix(article_metadata.title, article.title)
            /\ Len(article_metadata.creator) <= 200
            /\ IsPrefix(article_metadata.creator, article.creator)
            /\ Len(article_metadata.categories) <= 300
            /\ IsPrefix(article_metadata.categories, Join(article.categories))
            /\ Len(article_metadata.pub_date) <= 100
            /\ IsPrefix(article_metadata.pub_date, article.pub_date)
            /\ Len(article_metadata.source_url) <= 300
            /\ IsPrefix(article_metadata.source_url, article.source_url)

\* a record whose five values were all cut: every field of the article was
\* longer than its cap
C20_Witness ==
    /\ article_metadata.type = "rss_article"
    /\ meta_article.title > 500 /\ Len(article_metadata.title) = 500
    /\ meta_article.creator > 200 /\ Len(article_metadata.creator) = 200
    /\ Len(meta_article.categories) = 6 /\ Len(article_metadata.categories) = 300
    /\ meta_article.pub_date > 100 /\ Len(article_metadata.pub_date) = 100
    /\ meta_article.source_url > 300 /\ Len(article_metadata.source_url) = 300

\* the creator value of a result, "" when it has none
CreatorOf(result) == DictGet(DictGet(result, "metadata", EmptyDict), "creator", "")

\* C28: in mode advanced the router hands neither the filter built from the
\* caller's creator and category nor the caller's reranker to
\* search_and_rerank, whose broad stage therefore runs unfiltered, while in
\* mode documents the retrieval call carries both and every result returned
\* has the creator the filter asks for.
C28_AdvancedDropsFilter ==
    Routed =>
        /\ \A n \in RCallsOf({"search_and_rerank"}) :
            /\ rcalls[n].filter.is_none
            /\ rcalls[n].reranker = <<>>
        /\ \A n \in RCallsOf({"top_documents"}) :
            /\ rcalls[n].filter = filter_dict
            /\ rcalls[n].reranker = <<request.reranker>>
        /\ (rpc = "done" /\ request.search_type = "documents"
                /\ request.filter_creator \notin {<<>>, <<"">>}) =>
            \A j \in 1..Len(route_results) :
                CreatorOf(route_results[j]) = request.filter_creator[1]

\* mode advanced, asked for creator "bbc" and another reranker than the
\* default one, returned a document of creator "cnn"
C28_Witness ==
    /\ rpc = "done"
    /\ request.search_type = "advanced"
    /\ request.filter_creator = <<"bbc">>
    /\ request.reranker = "zerank-1"
    /\ ~filter_dict.is_none
    /\ \E j \in 1..Len(route_results) : CreatorOf(route_results[j]) = "cnn"

\* this step makes a status call: it starts a call whose first service call
\* is status.get
StatusStep == rcalls = <<>> /\ rcalls' # <<>> /\ rcalls'[1].op = "status_get"

----------------------------------------------------------------------------
(* Properties of get_rss_feed_content and scrape_and_index *)

\* the calls of the run made to op, by their rank in the history
SCallsOf(op) == {n \in 1..Len(slog) : slog[n].op = op}

\* scrape_and_index has handed its articles to index_articles
Handed == SCallsOf("index_articles") # {}

\* C21: no article handed to index_articles has the empty string as its
\* content: an item whose encoded body and description yield no text gets
\* the sentinel "N/A", never "".
C21_NoEmptyContent ==
    Handed => \A n \in 1..Len(scraped) :
                 /\ scraped[n].content # <<>>
                 /\ (CleanText(scraped[n].item.content_encoded.text) = <<>>
                        /\ CleanText(scraped[n].item.description.text) = <<>>)
                       => scraped[n].content = NA

\* C22: an article from an item with no encoded body and a
\* description that is not empty has the cleaned description as its content,
\* which is neither the sentinel nor empty; an article from an item with an
\* encoded body has the cleaned body as its content.
C22_FallbackToDescription ==
    \A n \in 1..Len(scraped) :
        LET item == scraped[n].item
        IN  /\ (~item.content_encoded.present
                  /\ item.description.present
                  /\ StripText(item.description.text) # <<>>)
                 => /\ scraped[n].content = CleanText(StripText(item.description.text))
                    /\ scraped[n].content # <<>>
                    /\ scraped[n].content # NA
            /\ item.content_encoded.present
                 => scraped[n].content = CleanText(StripText(item.content_encoded.text))

\* C23: a feed whose fetch fails is skipped: the failure does not end the
\* run, a run that is done has fetched every feed, and it has handed the
\* articles it gathered to index_articles.
C23_FailedFeedIsSkipped ==
    /\ \A n \in SCallsOf("get_rss_feed_content") :
           slog[n].outcome = "raised" => ~(spc = "raised" /\ n = Len(slog))
    /\ spc = "done" =>
           /\ {slog[n].arg : n \in SCallsOf("get_rss_feed_content")} = FeedUrls
           /\ scraped # <<>> => Handed

\* the number of collections of the service that have the name
NumCollections(name) == Cardinality({n \in 1..Len(collections) : collections[n] = name})

\* the step is an initialize_collection that the service answered with a conflict
ConflictStep == spc = "idle" /\ spc' # "idle" /\ slog'[1].outcome = "conflict"

\* C24: initialize_collection is fail-soft on a name conflict: the call whose
\* collections.add is refused with ConflictError returns normally and leaves
\* the collections as they were, so that after any number of calls there is
\* one collection of the name and never two; and in scrape_and_index it has
\* returned before index_articles, hence the first document write, starts.
C24_InitializeIsFailSoft ==
    /\ [](/\ NumCollections(collection_name) <= 1
          /\ (slog # <<>> /\ AfterCreate(slog[1].outcome) = "returned")
                => NumCollections(collection_name) = 1
          /\ \A n \in SCallsOf("index_articles") :
                /\ n > 1
                /\ slog[1].op = "collections.add"
                /\ slog[1].outcome \in {"created", "conflict"})
    /\ [][ConflictStep => (spc' = "fetch" /\ collections' = collections)]_vars

\* a run started on a service that had the collection, and that went on to
\* hand its articles to index_articles
C24_Witness ==
    /\ spc = "done"
    /\ slog[1].outcome = "conflict"
    /\ Handed
    /\ collections = <<collection_name>>

----------------------------------------------------------------------------
(* Properties of batch_delete_documents *)

\* the outcome of the last documents.delete call of the batch for the path
LastDelete(path) ==
    LET n == CHOOSE m \in 1..Len(dlog) :
                 /\ dlog[m].path = path
                 /\ \A j \in (m + 1)..Len(dlog) : dlog[j].path # path
    IN  dlog[n].outcome

\* C27: batch_delete_documents returns a mapping with one entry per path,
\* True for a deletion that succeeded and False for one that failed: a
\* failed deletion does not end the call, and the paths after it are
\* attempted.
C27_BatchDeleteReportsEach ==
    /\ dpc # "raised"
    /\ dpc = "done" =>
          /\ Len(dlog) = Len(delete_paths)
          /\ DOMAIN delete_results = {delete_paths[n] : n \in 1..Len(delete_paths)}
          /\ \A path \in DOMAIN delete_results :
                delete_results[path] = (LastDelete(path) = "deleted")
====
